---- MODULE Spec2Model ----
(***************************************************************************)
(* A model of the SEMOSS adapter of src/src/main.js: the pseudo-stream     *)
(* iterator returned by _createStreamingChatCompletion, the session        *)
(* bootstrap and its guard, the completion dispatcher and the message      *)
(* formatter.                                                              *)
(*                                                                         *)
(* JavaScript runs one task at a time: an action of this model is the code *)
(* that runs between two suspension points (await, timer, promise settle). *)
(***************************************************************************)
EXTENDS Integers, Sequences, FiniteSets, TLC

\* ------------------------------------------------------------------ bounds

\* Length of the text the vendor generates for one query.
MaxText == 3
\* partial() calls that may be awaiting their answer at the same time.
MaxInflight == 2
\* next() calls the consumer makes on one iterator.
MaxAdvances == 5
\* Activations of next() that may exist at once (1 is used by a sequential consumer).
NSlots == 2

\* The characters of the generated text, all distinct.
Chars == <<"a", "b", "c", "d", "e", "f">>
Text(n) == SubSeq(Chars, 1, n)

Slots == 1..NSlots

\* What runPixel may resolve with: the errors list of the vendor result.
ErrorLists == {<<>>, <<"e1">>, <<"e1", "e2">>}
\* The message of the error runPixel may reject with or throw.
RejectReasons == {"boom"}

StreamingPrefix == "SEMOSS API Streaming Error: "

\* Session ids: session k has id k, and 0 stands for null and undefined.
\* window.insightId: nothing in the source sets it.
WindowInsightId == 0
\* this.insightId in next() and in the interval callback, an arrow function
\* inside next(): "this" is the iterator, whose insightId is undefined.
IteratorInsightId == 0
\* this.insightId || window.insightId, the session id next() passes to runPixel.
StreamSessionArg ==
    IF IteratorInsightId # 0 THEN IteratorInsightId ELSE WindowInsightId

VARIABLES
    \* the closure of one iterator, main.js 257-263
    isCollecting, fullResponse, lastResponseLength, intervalId,
    runPixelPromise, isComplete, error,
    \* the activations of next(): where each one is suspended
    pc,
    \* the environment of the iterator
    timerOn,        \* the interval is scheduled (setInterval done, clearInterval not)
    reads,          \* partial() calls awaiting their answer, by the length of the
                    \* vendor text when each was issued
    srvLen,         \* length of the cumulative text the vendor holds
    outcome,        \* what runPixel settled with
    partialArgs,    \* the session ids partial() was called with
    \* what the consumer has seen
    deltas,         \* the concatenation of the delta contents yielded
    stops,          \* terminal chunks yielded
    fails,          \* next() calls that threw
    last,           \* what the most recently settled next() gave
    advances,       \* next() calls made by the consumer
    \* the adapter object, main.js 5-9
    insight,        \* index in sessions of the session object held, 0 for null
    insightId, initialized, authorized,
    \* the sessions created so far: the state of initialize() and the store
    sessions,
    \* the create() calls: where each one is suspended and how it ended
    calls,
    settled,        \* the create() call that ended most recently
    pixelCalls,     \* runPixel invocations made on behalf of this adapter
    streams,        \* the create() calls that returned a stream object
    \* one run of a pure function
    fnIn, fnOut

closureVars == <<isCollecting, fullResponse, lastResponseLength, intervalId,
                 runPixelPromise, isComplete, error>>
envVars == <<reads, srvLen, outcome, partialArgs>>
seenVars == <<deltas, stops, fails, last>>
streamVars == <<closureVars, pc, timerOn, envVars, seenVars, advances>>

adapterVars == <<insight, insightId, initialized, authorized, sessions, calls,
                 settled, pixelCalls, streams>>
fnVars == <<fnIn, fnOut>>

vars == <<streamVars, adapterVars, fnVars>>

NoYield == [kind |-> "none", content |-> <<>>, finish |-> "null", message |-> ""]

\* ------------------------------------------------------------ the iterator

\* Symbol.asyncIterator: the state a fresh iterator starts from.
IteratorInit ==
    /\ isCollecting = TRUE
    /\ fullResponse = <<>>
    /\ lastResponseLength = 0
    /\ intervalId = "null"
    /\ runPixelPromise = "null"
    /\ isComplete = FALSE
    /\ error = ""
    /\ pc = [c \in Slots |-> "idle"]
    /\ timerOn = FALSE
    /\ reads = [n \in 0..MaxText |-> 0]
    /\ srvLen = 0
    /\ outcome = [errors |-> <<>>, message |-> ""]
    /\ partialArgs = {}
    /\ deltas = <<>>
    /\ stops = 0
    /\ fails = 0
    /\ last = NoYield
    /\ advances = 0

\* The promise next() returned settles: the activation ends, the consumer sees y.
Settle(c, y) ==
    /\ pc' = [pc EXCEPT ![c] = "idle"]
    /\ last' = y
    /\ deltas' = IF y.kind = "chunk" THEN deltas \o y.content ELSE deltas
    /\ stops' = IF y.kind = "chunk" /\ y.finish = "stop" THEN stops + 1 ELSE stops
    /\ fails' = IF y.kind = "error" THEN fails + 1 ELSE fails

\* A delta chunk that carries its text twice.
DeltaChunkDoubled(s) ==
    [kind |-> "chunk", content |-> s \o s, finish |-> "null", message |-> ""]
DeltaChunk(s) == [kind |-> "chunk", content |-> s, finish |-> "null", message |-> ""]
StopChunk == [kind |-> "chunk", content |-> <<>>, finish |-> "stop", message |-> ""]
DoneResult == [kind |-> "done", content |-> <<>>, finish |-> "null", message |-> ""]
Thrown(m) == [kind |-> "error", content |-> <<>>, finish |-> "null", message |-> m]

\* Catch without "error = new Error(...)": the failure is thrown, not saved.
CatchForgets(c, m) ==
    /\ isCollecting' = FALSE
    /\ timerOn' = IF intervalId # "null" THEN FALSE ELSE timerOn
    /\ Settle(c, Thrown(StreamingPrefix \o m))
    /\ UNCHANGED <<fullResponse, lastResponseLength, intervalId, runPixelPromise,
                   isComplete, error>>

\* catch (e): save the error, stop collecting, stop the timer, throw.
Catch(c, m) ==
    /\ error' = StreamingPrefix \o m
    /\ isCollecting' = FALSE
    /\ timerOn' = IF intervalId # "null" THEN FALSE ELSE timerOn
    /\ Settle(c, Thrown(StreamingPrefix \o m))
    /\ UNCHANGED <<fullResponse, lastResponseLength, intervalId, runPixelPromise,
                   isComplete>>

\* Complete without "isComplete = true".
CompleteUnmarked(c) ==
    /\ isCollecting' = FALSE
    /\ timerOn' = FALSE
    /\ Settle(c, StopChunk)
    /\ UNCHANGED <<fullResponse, lastResponseLength, intervalId, runPixelPromise,
                   isComplete, error>>

\* if (isResolved): stop collecting, clear the interval, mark complete and
\* yield the terminal chunk.
Complete(c) ==
    /\ isCollecting' = FALSE
    /\ timerOn' = FALSE
    /\ isComplete' = TRUE
    /\ Settle(c, StopChunk)
    /\ UNCHANGED <<fullResponse, lastResponseLength, intervalId, runPixelPromise,
                   error>>

\* "Check if we have new content" and, without growth, the start of the race.
\* A promise that is already settled wins the race in the same task.
Compare(c) ==
    IF Len(fullResponse) > lastResponseLength
    THEN /\ lastResponseLength' = Len(fullResponse)
         /\ Settle(c, DeltaChunk(SubSeq(fullResponse, lastResponseLength + 1,
                                        Len(fullResponse))))
         /\ UNCHANGED <<isCollecting, fullResponse, intervalId, runPixelPromise,
                        isComplete, error, timerOn>>
    ELSE CASE runPixelPromise = "resolved" -> Complete(c)
           [] runPixelPromise = "rejected" -> Catch(c, outcome.message)
           [] OTHER ->
                /\ pc' = [pc EXCEPT ![c] = "race"]
                /\ UNCHANGED <<closureVars, timerOn, seenVars>>

\* The body of next() from its first line to its first suspension.
Body(c) ==
    IF error # ""
    THEN /\ Settle(c, Thrown(error))
         /\ UNCHANGED <<closureVars, timerOn, pixelCalls>>
    ELSE IF isComplete
    THEN /\ Settle(c, DoneResult)
         /\ UNCHANGED <<closureVars, timerOn, pixelCalls>>
    ELSE IF runPixelPromise = "null"
    THEN \* runPixel is called for the stream's create() call; in next(), "this"
         \* is the iterator, which has no insightId
         /\ pixelCalls' = [pixelCalls EXCEPT ![settled.call] =
                                                Append(@, StreamSessionArg)]
         /\ \/ \* it returns its promise, the interval is set, wait 300 ms
               /\ runPixelPromise' = "pending"
               /\ intervalId' = "timer"
               /\ timerOn' = TRUE
               /\ pc' = [pc EXCEPT ![c] = "wait300"]
               /\ UNCHANGED <<isCollecting, fullResponse, lastResponseLength,
                              isComplete, error, seenVars>>
            \/ \* it throws in this task
               \E m \in RejectReasons : Catch(c, m)
    ELSE Compare(c) /\ UNCHANGED pixelCalls

\* The consumer calls next() on the iterator of the stream create() returned:
\* a new activation runs the body.
NextCall(c) ==
    /\ settled.kind = "stream"
    /\ pc[c] = "idle"
    /\ \A d \in Slots : d < c => pc[d] # "idle"
    /\ advances < MaxAdvances
    /\ advances' = advances + 1
    /\ Body(c)
    /\ UNCHANGED envVars
    /\ UNCHANGED <<insight, insightId, initialized, authorized, sessions, calls,
                   settled, streams, fnVars>>

\* The 300 ms wait of the first call ends.
After300(c) ==
    /\ pc[c] = "wait300"
    /\ Compare(c)
    /\ UNCHANGED <<envVars, advances>>
    /\ UNCHANGED <<adapterVars, fnVars>>

\* The completion path without clearInterval.
RaceWonKeepsTimer(c) ==
    /\ pc[c] = "race"
    /\ runPixelPromise = "resolved"
    /\ isCollecting' = FALSE
    /\ isComplete' = TRUE
    /\ Settle(c, StopChunk)
    /\ UNCHANGED <<fullResponse, lastResponseLength, intervalId, runPixelPromise,
                   error, timerOn>>
    /\ UNCHANGED <<envVars, advances>>
    /\ UNCHANGED <<adapterVars, fnVars>>

\* Promise.race is won by runPixelPromise.then(() => true).
RaceWon(c) ==
    /\ pc[c] = "race"
    /\ runPixelPromise = "resolved"
    /\ Complete(c)
    /\ UNCHANGED <<envVars, advances>>
    /\ UNCHANGED <<adapterVars, fnVars>>

\* runPixelPromise rejects while raced: the await throws into the catch.
RaceRejected(c) ==
    /\ pc[c] = "race"
    /\ runPixelPromise = "rejected"
    /\ Catch(c, outcome.message)
    /\ UNCHANGED <<envVars, advances>>
    /\ UNCHANGED <<adapterVars, fnVars>>

\* The 100 ms timeout wins the race: isResolved is false, wait another 100 ms.
RaceTimeout(c) ==
    /\ pc[c] = "race"
    /\ runPixelPromise = "pending"
    /\ pc' = [pc EXCEPT ![c] = "wait100"]
    /\ UNCHANGED <<closureVars, timerOn, envVars, seenVars, advances>>
    /\ UNCHANGED <<adapterVars, fnVars>>

\* A retry that never comes: the activation stays in its 100 ms wait.
After100WaitsAgain(c) ==
    /\ pc[c] = "wait100"
    /\ UNCHANGED vars

\* A retry that issues the query again before it looks at the buffer.
After100Reissues(c) ==
    /\ pc[c] = "wait100"
    /\ pixelCalls' = [pixelCalls EXCEPT ![settled.call] = Append(@, StreamSessionArg)]
    /\ Compare(c)
    /\ UNCHANGED <<envVars, advances>>
    /\ UNCHANGED <<insight, insightId, initialized, authorized, sessions, calls,
                   settled, streams, fnVars>>

\* The 100 ms wait ends: return this.next(), the body runs again from its top.
After100(c) ==
    /\ pc[c] = "wait100"
    /\ Body(c)
    /\ UNCHANGED <<envVars, advances>>
    /\ UNCHANGED <<insight, insightId, initialized, authorized, sessions, calls,
                   settled, streams, fnVars>>

ReadsInFlight == LET Sum[n \in -1..MaxText] == IF n < 0 THEN 0 ELSE reads[n] + Sum[n - 1]
                 IN Sum[MaxText]

\* The interval callback up to its await: if still collecting, call partial().
TimerTick ==
    /\ timerOn
    /\ isCollecting
    /\ ReadsInFlight < MaxInflight
    /\ reads' = [reads EXCEPT ![srvLen] = @ + 1]
    /\ partialArgs' = partialArgs \cup {IteratorInsightId}
    /\ UNCHANGED <<closureVars, pc, timerOn, srvLen, outcome, seenVars, advances>>
    /\ UNCHANGED <<adapterVars, fnVars>>

\* partial() answers with the cumulative text of some moment between the call
\* and now; a non-empty total overwrites the buffer.
PartialReturn(m, n) ==
    /\ reads[m] > 0
    /\ n >= m /\ n <= srvLen
    /\ reads' = [reads EXCEPT ![m] = @ - 1]
    /\ fullResponse' = IF n > 0 THEN Text(n) ELSE fullResponse
    /\ UNCHANGED <<isCollecting, lastResponseLength, intervalId, runPixelPromise,
                   isComplete, error, pc, timerOn, srvLen, outcome, partialArgs,
                   seenVars, advances>>
    /\ UNCHANGED <<adapterVars, fnVars>>

\* partial() throws, or answers without a message: the buffer is left alone.
PartialFail(m) ==
    /\ reads[m] > 0
    /\ reads' = [reads EXCEPT ![m] = @ - 1]
    /\ UNCHANGED <<closureVars, pc, timerOn, srvLen, outcome, partialArgs, seenVars,
                   advances>>
    /\ UNCHANGED <<adapterVars, fnVars>>

\* The vendor generates one more character while the query runs.
ServerGrow ==
    /\ runPixelPromise = "pending"
    /\ srvLen < MaxText
    /\ srvLen' = srvLen + 1
    /\ UNCHANGED <<closureVars, pc, timerOn, reads, outcome, partialArgs, seenVars,
                   advances>>
    /\ UNCHANGED <<adapterVars, fnVars>>

\* runPixel resolves with a vendor result.
QueryResolve(errs) ==
    /\ runPixelPromise = "pending"
    /\ runPixelPromise' = "resolved"
    /\ outcome' = [errors |-> errs, message |-> ""]
    /\ UNCHANGED <<isCollecting, fullResponse, lastResponseLength, intervalId,
                   isComplete, error, pc, timerOn, reads, srvLen, partialArgs, seenVars,
                   advances>>
    /\ UNCHANGED <<adapterVars, fnVars>>

\* runPixel rejects.
QueryReject(m) ==
    /\ runPixelPromise = "pending"
    /\ runPixelPromise' = "rejected"
    /\ outcome' = [errors |-> <<>>, message |-> m]
    /\ UNCHANGED <<isCollecting, fullResponse, lastResponseLength, intervalId,
                   isComplete, error, pc, timerOn, reads, srvLen, partialArgs, seenVars,
                   advances>>
    /\ UNCHANGED <<adapterVars, fnVars>>

StreamEnv ==
    \/ TimerTick
    \/ \E m \in 0..MaxText, n \in 0..MaxText : PartialReturn(m, n)
    \/ \E m \in 0..MaxText : PartialFail(m)
    \/ ServerGrow
    \/ \E errs \in ErrorLists : QueryResolve(errs)
    \/ \E m \in RejectReasons : QueryReject(m)

StreamSteps ==
    \/ \E c \in Slots : After300(c)
    \/ \E c \in Slots : RaceWon(c)
    \/ \E c \in Slots : RaceRejected(c)
    \/ \E c \in Slots : RaceTimeout(c)
    \/ \E c \in Slots : After100(c)

AllIdle == \A d \in Slots : pc[d] = "idle"



\* ------------------------------------------------------- the formatter

\* Strings the formatter works on are sequences of one-character strings.
\* the text before the system content, main.js 97
SystemPromptOpen ==
    <<"<", "s", "y", "s", "t", "e", "m", "_", "p", "r", "o", "m", "p", "t", ">", "\n",
      " ">>
\* the text after the system content, main.js 97
SystemPromptClose ==
    <<"\n", "<", "/", "s", "y", "s", "t", "e", "m", "_", "p", "r", "o", "m", "p", "t",
      ">", "\n", "\n">>
\* main.js 100
HistoryOpen ==
    <<"<", "c", "o", "n", "v", "e", "r", "s", "a", "t", "i", "o", "n", "_", "h", "i",
      "s", "t", "o", "r", "y", ">", "\n">>
\* between role name and content, main.js 106
EntrySeparator ==
    <<":", " ">>
\* after each entry, main.js 106
EntryEnd ==
    <<"\n", "\n">>
\* main.js 109
HistoryClose ==
    <<"<", "/", "c", "o", "n", "v", "e", "r", "s", "a", "t", "i", "o", "n", "_", "h",
      "i", "s", "t", "o", "r", "y", ">", "\n">>
\* main.js 112
AssistantCue ==
    <<"A", "s", "s", "i", "s", "t", "a", "n", "t", ":", " ">>
RoleUser ==
    <<"u", "s", "e", "r">>
RoleAssistant ==
    <<"a", "s", "s", "i", "s", "t", "a", "n", "t">>
RoleSystem ==
    <<"s", "y", "s", "t", "e", "m">>
\* a role the switch has no case for
RoleTool ==
    <<"t", "o", "o", "l">>
\* a role that differs from 'user' in case only
RoleUpperUser ==
    <<"U", "S", "E", "R">>
\* main.js 126
NameUser ==
    <<"U", "s", "e", "r">>
\* main.js 128
NameAssistant ==
    <<"A", "s", "s", "i", "s", "t", "a", "n", "t">>
\* main.js 130
NameSystem ==
    <<"S", "y", "s", "t", "e", "m">>
ContentHi ==
    <<"H", "i">>
ContentYo ==
    <<"y", "o">>

Lowers ==
    <<"a", "b", "c", "d", "e", "f", "g", "h", "i", "j", "k", "l", "m", "n", "o", "p",
      "q", "r", "s", "t", "u", "v", "w", "x", "y", "z">>
Uppers ==
    <<"A", "B", "C", "D", "E", "F", "G", "H", "I", "J", "K", "L", "M", "N", "O", "P",
      "Q", "R", "S", "T", "U", "V", "W", "X", "Y", "Z">>

\* A JavaScript value passed as options.messages: undefined, something that is
\* no array (a string, a plain object) or an array of messages.
Undefined == [kind |-> "undefined", items |-> <<>>]
NotAnArray == [kind |-> "object", items |-> <<>>]
Arr(l) == [kind |-> "array", items |-> l]

Message(r, t) == [role |-> r, content |-> t]

\* !messages || !Array.isArray(messages) || messages.length === 0
EmptyOrInvalid(messages) ==
    \/ messages.kind = "undefined"
    \/ messages.kind # "array"
    \/ Len(messages.items) = 0

\* The check with any message accepted in place of a user message.
hasAnyMessage(items) == Len(items) > 0

\* messages.some(m => m.role === 'user')
hasUserMessage(items) == \E i \in 1..Len(items) : items[i].role = RoleUser

ToLowerChar(ch) ==
    IF \E i \in 1..Len(Uppers) : Uppers[i] = ch
    THEN Lowers[CHOOSE i \in 1..Len(Uppers) : Uppers[i] = ch]
    ELSE ch
ToUpperChar(ch) ==
    IF \E i \in 1..Len(Lowers) : Lowers[i] = ch
    THEN Uppers[CHOOSE i \in 1..Len(Lowers) : Lowers[i] = ch]
    ELSE ch
\* The switch on the role as given, without toLowerCase().
KeepCase(str) == str
toLowerCase(str) == [i \in 1..Len(str) |-> ToLowerChar(str[i])]

\* role.charAt(0).toUpperCase() + role.slice(1)
CapitalizeFirst(role) ==
    IF role = <<>> THEN <<>> ELSE <<ToUpperChar(role[1])>> \o Tail(role)

_getRoleName(role) ==
    CASE toLowerCase(role) = RoleUser -> NameUser
      [] toLowerCase(role) = RoleAssistant -> NameAssistant
      [] toLowerCase(role) = RoleSystem -> NameSystem
      [] OTHER -> CapitalizeFirst(role)

\* The loop body with "if (message.role === 'system')" also skipping assistants.
HistoryEntrySkipsAssistant(message) ==
    IF message.role = RoleSystem \/ message.role = RoleAssistant
    THEN <<>>
    ELSE _getRoleName(message.role) \o EntrySeparator \o message.content \o EntryEnd

\* What one pass of the for loop appends for a message.
HistoryEntry(message) ==
    IF message.role = RoleSystem
    THEN <<>>
    ELSE _getRoleName(message.role) \o EntrySeparator \o message.content \o EntryEnd

Returned(v) == [threw |-> FALSE, message |-> "", value |-> v]
ThrewError(m) == [threw |-> TRUE, message |-> m, value |-> <<>>]

\* The system block built from the last system message instead of the first.
SystemBlockLast(systemMessages) ==
    IF Len(systemMessages) > 0
    THEN SystemPromptOpen \o systemMessages[Len(systemMessages)].content
             \o SystemPromptClose
    ELSE <<>>

\* if (systemMessages.length > 0): what is appended for systemMessages[0].
SystemBlock(systemMessages) ==
    IF Len(systemMessages) > 0
    THEN SystemPromptOpen \o systemMessages[1].content \o SystemPromptClose
    ELSE <<>>

_formatMessagesForSemoss(messages) ==
    IF EmptyOrInvalid(messages)
    THEN ThrewError("Messages array is empty or invalid")
    ELSE IF ~hasUserMessage(messages.items)
    THEN ThrewError("At least one user message is required")
    ELSE LET items == messages.items
             systemMessages == SelectSeq(items, LAMBDA m : m.role = RoleSystem)
             \* formattedPrompt after the first i messages of the loop
             formattedPrompt[i \in 0..Len(items)] ==
                 IF i = 0
                 THEN SystemBlock(systemMessages) \o HistoryOpen
                 ELSE formattedPrompt[i - 1] \o HistoryEntry(items[i])
         IN Returned(formattedPrompt[Len(items)] \o HistoryClose \o AssistantCue)

\* --- one run of the formatter on a drawn input

\* Messages per list.
MaxMsgs == 3

FormatRoles == {RoleUser, RoleAssistant, RoleSystem, RoleTool, RoleUpperUser}
FormatContents == {ContentHi, ContentYo}
FormatMessages == {Message(r, t) : r \in FormatRoles, t \in FormatContents}
SeqsUpTo(S, n) == UNION {[1..k -> S] : k \in 0..n}
FormatInputs == {Undefined, NotAnArray} \cup {Arr(l) : l \in SeqsUpTo(FormatMessages, MaxMsgs)}

NotRun == [threw |-> FALSE, message |-> "not run", value |-> <<>>]

RunFormat ==
    /\ fnOut = NotRun
    /\ fnOut' = _formatMessagesForSemoss(fnIn)
    /\ UNCHANGED <<fnIn, streamVars, adapterVars>>

\* ---------------------------------------------------------- the adapter

\* Session objects one adapter may create.
MaxSessions == 2
\* create() calls made on one adapter.
MaxCreates == 2
\* Times one returned stream object is asked for an iterator.
MaxIterators == 2

CallIds == 1..MaxCreates

\* modelMap, main.js 12-15, and the default of main.js 147
ModelLlama == "305f694d-c91c-400f-bd6c-b7e1dfbb5a4b"
ModelQwen == "a1b1b9ad-17c7-473a-9dfb-b2b8c29cdef0"

\* modelMap is a plain object: besides its two own keys, a lookup finds what
\* the object inherits from Object.prototype under these names.
ObjectPrototypeKeys ==
    {"constructor", "toString", "toLocaleString", "valueOf", "hasOwnProperty",
     "isPrototypeOf", "propertyIsEnumerable", "__proto__", "__defineGetter__",
     "__defineSetter__", "__lookupGetter__", "__lookupSetter__"}
\* The inherited value (a function, or the prototype object): truthy, no string.
Inherited(name) == "Object.prototype." \o name

\* this.modelMap[openaiModel]: "" stands for undefined.
ModelMapLookup(openaiModel) ==
    CASE openaiModel = "Llama-3.1-8B-Instruct" -> ModelLlama
      [] openaiModel = "Qwen2.5-7B-Instruct" -> ModelQwen
      [] openaiModel \in ObjectPrototypeKeys -> Inherited(openaiModel)
      [] OTHER -> ""

_getSemossModelId(openaiModel) ==
    LET modelId == ModelMapLookup(openaiModel)
    IN IF modelId = "" THEN "305f694d-c91c-400f-bd6c-b7e1dfbb5a4b" ELSE modelId

\* The output field of the first pixelReturn element, as a JavaScript value:
\* undefined, null, a string, a number (held in tokens), or an object with
\* response and numberOfTokensInResponse ("" and 0 stand for a missing or empty
\* response and a missing or zero count).
OutUndefined == [type |-> "undefined", response |-> "", tokens |-> 0]
OutNull == [type |-> "null", response |-> "", tokens |-> 0]
OutString(str) == [type |-> "string", response |-> str, tokens |-> 0]
OutNumber(n) == [type |-> "number", response |-> "", tokens |-> n]
OutObject(r, n) == [type |-> "object", response |-> r, tokens |-> n]

\* Every output value taken as present, the empty string included.
TruthyAlways(output) == TRUE

\* JavaScript truthiness of an output value.
Truthy(output) ==
    CASE output.type = "undefined" -> FALSE
      [] output.type = "null" -> FALSE
      [] output.type = "string" -> output.response # ""
      [] output.type = "number" -> output.tokens # 0
      [] OTHER -> TRUE

_formatSemossResponse(semossResponse) ==
    LET hasOutput == /\ Len(semossResponse.pixelReturn) > 0
                     /\ Truthy(semossResponse.pixelReturn[1].output)
        output == semossResponse.pixelReturn[1].output
        fromObject == hasOutput /\ output.type = "object" /\ output.response # ""
        fromString == hasOutput /\ ~fromObject /\ output.type = "string"
        responseText == IF fromObject \/ fromString THEN output.response
                        ELSE "No response received"
        tokenCount == IF fromObject THEN output.tokens ELSE 0
    IN [choices |-> 1, role |-> "assistant", content |-> responseText,
        finish_reason |-> "stop", prompt_tokens |-> 0,
        completion_tokens |-> tokenCount, total_tokens |-> tokenCount]

NoCompletion == [choices |-> 0, role |-> "", content |-> "", finish_reason |-> "",
                 prompt_tokens |-> 0, completion_tokens |-> 0, total_tokens |-> 0]

\* errors.join(', ')
RECURSIVE Join(_)
Join(errs) ==
    IF Len(errs) = 0 THEN ""
    ELSE IF Len(errs) = 1 THEN errs[1]
    ELSE errs[1] \o ", " \o Join(Tail(errs))

\* The errors check of main.js 233 dropped.
NeverFailed(result) == FALSE

\* result.errors && result.errors.length > 0
VendorFailed(result) == Len(result.errors) > 0

ApiPrefix == "SEMOSS API Error: "

\* What the vendor's runPixel may resolve with.
PixelReturns == {<<>>, <<[output |-> OutObject("hi", 3)]>>}
VendorResults == [errors : ErrorLists, pixelReturn : PixelReturns]
NoVendor == [errors |-> <<>>, pixelReturn |-> <<>>]

\* What create() is called with.
AdapterMessages ==
    {Undefined, NotAnArray, Arr(<<>>),
     Arr(<<Message(RoleAssistant, ContentHi)>>),
     Arr(<<Message(RoleUser, ContentHi)>>),
     Arr(<<Message(RoleSystem, ContentYo), Message(RoleUser, ContentHi)>>)}
\* The options object of a call. createChatCompletion reads it at main.js 213,
\* after the guard's await, so the model draws it in the step that ends the
\* guard. options.model only selects the engine named in the query text, which
\* the model does not track.
Options == [messages : AdapterMessages, stream : BOOLEAN]
NoOptions == [messages |-> Undefined, stream |-> FALSE]

\* new Insight(): a session whose initialize() is to settle, created by the
\* _initialize activation of owner (0: the constructor's, c: create call c's).
NewInsight(owner) ==
    [status |-> "pending", isInitialized |-> FALSE, isAuthorized |-> FALSE,
     owner |-> owner]

\* The id the store of session k holds.
StoreInsightId(ss, k) == IF ss[k].isInitialized THEN k ELSE 0

\* A create() call: where it is suspended, and its options once it has read them.
Call(pc_, opts) == [pc |-> pc_, options |-> opts]

\* thrown: the message of the error runPixel threw or rejected with, if it did.
NoSettled == [call |-> 0, options |-> NoOptions, vendor |-> NoVendor, kind |-> "none",
              message |-> "", value |-> NoCompletion, thrown |-> ""]

\* A constructor that leaves the bootstrap to the first public call.
ConstructorLazy == [insight |-> 0, sessions |-> <<>>]

\* The constructor: its fields are null and false, and its last statement calls
\* _initialize(), which creates a session and starts its initialize().
Constructor == [insight |-> 1, sessions |-> <<NewInsight(0)>>]

InitAdapterVars ==
    /\ insight = Constructor.insight
    /\ insightId = 0
    /\ initialized = FALSE
    /\ authorized = FALSE
    /\ sessions = Constructor.sessions
    /\ calls = [c \in CallIds |-> Call("idle", NoOptions)]
    /\ settled = NoSettled
    /\ pixelCalls = [c \in CallIds |-> <<>>]
    /\ streams = {}

\* create() call c, made with opts, ends: resolved with a completion or a
\* stream, or rejected.
SettleCall(c, opts, kind, message, vendor, value) ==
    /\ calls' = [calls EXCEPT ![c] = Call("done", NoOptions)]
    /\ settled' = [call |-> c, options |-> opts, vendor |-> vendor, kind |-> kind,
                   message |-> message, value |-> value, thrown |-> ""]

\* The guard with the authorized check left out.
EnsureFailureInitializedOnly ==
    IF ~initialized THEN "SEMOSS SDK failed to initialize" ELSE ""

\* _ensureInitialized after its await: the message it throws, "" if it returns.
EnsureFailure ==
    IF ~initialized THEN "SEMOSS SDK failed to initialize"
    ELSE IF ~authorized THEN "SEMOSS SDK failed to authorize user on SEMOSS platform"
    ELSE ""

\* Whether _initialize, called now, creates a session ("if (!this.initialized)").
InitializeBoots == ~initialized

\* createChatCompletion up to "await this._ensureInitialized()": the guard calls
\* _initialize when a flag is false, and _initialize creates a session and
\* awaits its initialize() when initialized is false.
CreateCall(c) ==
    /\ calls[c].pc = "idle"
    /\ \A d \in CallIds : d < c => calls[d].pc # "idle"
    /\ IF (~initialized \/ ~authorized) /\ InitializeBoots
       THEN /\ Len(sessions) < MaxSessions
            /\ sessions' = Append(sessions, NewInsight(c))
            /\ insight' = Len(sessions) + 1
            /\ calls' = [calls EXCEPT ![c] = Call("boot", NoOptions)]
       ELSE /\ calls' = [calls EXCEPT ![c] = Call("guard", NoOptions)]
            /\ UNCHANGED <<sessions, insight>>
    /\ UNCHANGED <<insightId, initialized, authorized, settled, pixelCalls, streams>>
    /\ UNCHANGED <<streamVars, fnVars>>

\* The vendor SDK sets a flag of the store while initialize() runs. Only the
\* store of this.insight is ever read, so only that one is followed.
StoreProgress(k, flag) ==
    /\ k = insight
    /\ k \in 1..Len(sessions)
    /\ sessions[k].status = "pending"
    /\ \/ /\ flag = "isInitialized" /\ ~sessions[k].isInitialized
          /\ sessions' = [sessions EXCEPT ![k].isInitialized = TRUE]
       \/ /\ flag = "isAuthorized" /\ ~sessions[k].isAuthorized
          /\ sessions' = [sessions EXCEPT ![k].isAuthorized = TRUE]
    /\ UNCHANGED <<insight, insightId, initialized, authorized, calls, settled,
                   pixelCalls, streams>>
    /\ UNCHANGED <<streamVars, fnVars>>

InitFailedPrefix == "Failed to initialize SEMOSS SDK: "

\* initialize() of session k resolves and the _initialize activation that awaited
\* it resumes: it reads the store of this.insight, the session held now, sets
\* the id and the flags from it, and throws if a flag is false.
InitializeResolves(k) ==
    /\ k \in 1..Len(sessions)
    /\ sessions[k].status = "pending"
    /\ sessions' = [sessions EXCEPT ![k].status = "resolved"]
    /\ insightId' = StoreInsightId(sessions, insight)
    /\ initialized' = sessions[insight].isInitialized
    /\ authorized' = sessions[insight].isAuthorized
    /\ LET c == sessions[k].owner
           thrown == IF ~initialized'
                     THEN InitFailedPrefix \o "Failed to initialize SEMOSS SDK"
                     ELSE IF ~authorized'
                     THEN InitFailedPrefix \o "Failed to authorize user on SEMOSS platform"
                     ELSE ""
       IN IF c = 0
          THEN UNCHANGED <<calls, settled>>
          ELSE IF thrown # ""
          THEN \E opts \in Options :
                  SettleCall(c, opts, "init_error", thrown, NoVendor, NoCompletion)
          ELSE /\ calls' = [calls EXCEPT ![c] = Call("guard", NoOptions)]
               /\ UNCHANGED settled
    /\ UNCHANGED <<insight, pixelCalls, streams>>
    /\ UNCHANGED <<streamVars, fnVars>>

\* initialize() of session k rejects: the catch of _initialize rethrows.
InitializeRejects(k, m) ==
    /\ k \in 1..Len(sessions)
    /\ sessions[k].status = "pending"
    /\ sessions' = [sessions EXCEPT ![k].status = "rejected"]
    /\ LET c == sessions[k].owner
       IN IF c = 0
          THEN UNCHANGED <<calls, settled>>
          ELSE \E opts \in Options :
                  SettleCall(c, opts, "init_error", InitFailedPrefix \o m, NoVendor,
                             NoCompletion)
    /\ UNCHANGED <<insight, insightId, initialized, authorized, pixelCalls, streams>>
    /\ UNCHANGED <<streamVars, fnVars>>

\* _ensureInitialized resumes after its await and createChatCompletion runs on
\* to its return, its throw or its "await runPixel(...)".
GuardResume(c, opts) ==
    /\ calls[c].pc = "guard"
    /\ LET content == _formatMessagesForSemoss(opts.messages)
       IN IF EnsureFailure # ""
          THEN /\ SettleCall(c, opts, "init_error", EnsureFailure, NoVendor,
                             NoCompletion)
               /\ UNCHANGED <<pixelCalls, streams>>
          ELSE IF EmptyOrInvalid(opts.messages)
          THEN /\ SettleCall(c, opts, "validation_error",
                             "Messages array is required", NoVendor, NoCompletion)
               /\ UNCHANGED <<pixelCalls, streams>>
          ELSE IF content.threw
          THEN /\ SettleCall(c, opts, "validation_error", content.message, NoVendor,
                             NoCompletion)
               /\ UNCHANGED <<pixelCalls, streams>>
          ELSE IF opts.stream
          THEN /\ SettleCall(c, opts, "stream", "", NoVendor, NoCompletion)
               /\ streams' = streams \cup {c}
               /\ UNCHANGED pixelCalls
          ELSE /\ pixelCalls' = [pixelCalls EXCEPT ![c] = Append(@, insightId)]
               /\ calls' = [calls EXCEPT ![c] = Call("query", opts)]
               /\ UNCHANGED <<settled, streams>>
    /\ UNCHANGED <<insight, insightId, initialized, authorized, sessions>>
    /\ UNCHANGED <<streamVars, fnVars>>

\* runPixel of call c resolves: the errors check, then the response is formatted;
\* an error thrown in the try block is rethrown with the API prefix.
PixelResolves(c, result) ==
    /\ calls[c].pc = "query"
    /\ IF VendorFailed(result)
       THEN SettleCall(c, calls[c].options, "api_error",
                       ApiPrefix \o Join(result.errors), result, NoCompletion)
       ELSE SettleCall(c, calls[c].options, "completion", "", result,
                       _formatSemossResponse(result))
    /\ UNCHANGED <<insight, insightId, initialized, authorized, sessions, pixelCalls,
                   streams>>
    /\ UNCHANGED <<streamVars, fnVars>>

\* The catch of createChatCompletion rethrowing the error as it caught it.
PixelRejectsUnwrapped(c, m) ==
    /\ calls[c].pc = "query"
    /\ calls' = [calls EXCEPT ![c] = Call("done", NoOptions)]
    /\ settled' = [call |-> c, options |-> calls[c].options, vendor |-> NoVendor,
                   kind |-> "api_error", message |-> m, value |-> NoCompletion,
                   thrown |-> m]
    /\ UNCHANGED <<insight, insightId, initialized, authorized, sessions, pixelCalls,
                   streams>>
    /\ UNCHANGED <<streamVars, fnVars>>

\* runPixel of call c throws or rejects with message m: the catch wraps it.
PixelRejects(c, m) ==
    /\ calls[c].pc = "query"
    /\ calls' = [calls EXCEPT ![c] = Call("done", NoOptions)]
    /\ settled' = [call |-> c, options |-> calls[c].options, vendor |-> NoVendor,
                   kind |-> "api_error", message |-> ApiPrefix \o m,
                   value |-> NoCompletion, thrown |-> m]
    /\ UNCHANGED <<insight, insightId, initialized, authorized, sessions, pixelCalls,
                   streams>>
    /\ UNCHANGED <<streamVars, fnVars>>

\* The stream object call c returned is iterated: [Symbol.asyncIterator]() makes
\* an iterator with a closure of its own (runPixelPromise null), and the first
\* next() on it issues the query; in next(), "this" is the iterator, which has
\* no insightId. The object keeps no record of having been iterated.
StreamFirstAdvance(c) ==
    /\ c \in streams
    /\ Len(pixelCalls[c]) < MaxIterators
    /\ pixelCalls' = [pixelCalls EXCEPT ![c] = Append(@, StreamSessionArg)]
    /\ UNCHANGED <<insight, insightId, initialized, authorized, sessions, calls,
                   settled, streams>>
    /\ UNCHANGED <<streamVars, fnVars>>

NextAdapter ==
    \/ \E c \in CallIds : CreateCall(c)
    \/ \E k \in 1..MaxSessions, flag \in {"isInitialized", "isAuthorized"} :
          StoreProgress(k, flag)
    \/ \E k \in 1..MaxSessions : InitializeResolves(k)
    \/ \E k \in 1..MaxSessions, m \in RejectReasons : InitializeRejects(k, m)
    \/ \E c \in CallIds, opts \in Options : GuardResume(c, opts)
    \/ \E c \in CallIds, result \in VendorResults : PixelResolves(c, result)
    \/ \E c \in CallIds, m \in RejectReasons : PixelRejects(c, m)
    \/ \E c \in CallIds : StreamFirstAdvance(c)

\* --- one run of the model resolver or of the response normalizer

\* Elements of a pixelReturn list.
MaxReturns == 2

\* options.model values: the table's names, the default of main.js 213, the
\* empty string, unknown names, and names Object.prototype defines.
ModelNames ==
    {"Llama-3.1-8B-Instruct", "Qwen2.5-7B-Instruct", "gpt-4o", "",
     "llama-3.1-8b-instruct", "gpt-4", "constructor", "toString", "__proto__",
     "hasOwnProperty", "valueOf"}
ModelInputs == [kind : {"model"}, name : ModelNames]

Outputs ==
    {OutUndefined, OutNull, OutString(""), OutString("hi"), OutNumber(0), OutNumber(7),
     OutObject("", 3), OutObject("hi", 0), OutObject("hi", 3)}
\* Error-free vendor results. A result without pixelReturn takes the same path
\* as one whose pixelReturn is empty (main.js 164-165): both are <<>> here.
ResponseInputs ==
    [kind : {"result"}, errors : {<<>>},
     pixelReturn : SeqsUpTo([output : Outputs], MaxReturns)]

Ran == fnOut.message # NotRun.message

RunModelId ==
    /\ fnIn.kind = "model"
    /\ ~Ran
    /\ fnOut' = Returned(_getSemossModelId(fnIn.name))
    /\ UNCHANGED <<fnIn, streamVars, adapterVars>>

RunResponse ==
    /\ fnIn.kind = "result"
    /\ ~Ran
    /\ fnOut' = Returned(_formatSemossResponse(fnIn))
    /\ UNCHANGED <<fnIn, streamVars, adapterVars>>

\* ---------------------------------------------------- the specifications

InitFn == fnIn = Undefined /\ fnOut = NotRun

\* The adapter once the constructor's bootstrap has ended with both flags true.
InitReadyAdapter ==
    /\ insight = Constructor.insight
    /\ sessions = [k \in 1..Len(Constructor.sessions) |->
                      [status |-> "resolved", isInitialized |-> TRUE,
                       isAuthorized |-> TRUE, owner |-> Constructor.sessions[k].owner]]
    /\ insightId = StoreInsightId(sessions, insight)
    /\ initialized = sessions[insight].isInitialized
    /\ authorized = sessions[insight].isAuthorized
    /\ calls = [c \in CallIds |-> Call("idle", NoOptions)]
    /\ settled = NoSettled
    /\ pixelCalls = [c \in CallIds |-> <<>>]
    /\ streams = {}

\* One create() call on a ready adapter and, if it returns a stream, one
\* iterator of that stream advanced by a consumer that awaits each next()
\* before the following one (for await).
NextStream ==
    \/ \E c \in CallIds : (\A d \in CallIds : calls[d].pc = "idle") /\ CreateCall(c)
    \/ \E c \in CallIds, opts \in Options : GuardResume(c, opts)
    \/ \E c \in CallIds, result \in VendorResults : PixelResolves(c, result)
    \/ \E c \in CallIds, m \in RejectReasons : PixelRejects(c, m)
    \/ \E c \in Slots : AllIdle /\ NextCall(c)
    \/ StreamSteps
    \/ StreamEnv

InitStream == IteratorInit /\ InitReadyAdapter /\ InitFn
SpecStream == InitStream /\ [][NextStream]_vars

\* partial() answers in the order it was called and with a total that extends
\* the one before: no answer is shorter than the buffer.
CumulativeReturn(m, n) ==
    /\ n >= Len(fullResponse)
    /\ PartialReturn(m, n)

\* The same, for a vendor whose partial reads are cumulative.
NextStreamCumulative ==
    \/ \E c \in CallIds : (\A d \in CallIds : calls[d].pc = "idle") /\ CreateCall(c)
    \/ \E c \in CallIds, opts \in Options : GuardResume(c, opts)
    \/ \E c \in CallIds, result \in VendorResults : PixelResolves(c, result)
    \/ \E c \in CallIds, m \in RejectReasons : PixelRejects(c, m)
    \/ \E c \in Slots : AllIdle /\ NextCall(c)
    \/ StreamSteps
    \/ TimerTick
    \/ \E m \in 0..MaxText, n \in 0..MaxText : CumulativeReturn(m, n)
    \/ \E m \in 0..MaxText : PartialFail(m)
    \/ ServerGrow
    \/ \E errs \in ErrorLists : QueryResolve(errs)
    \/ \E m \in RejectReasons : QueryReject(m)
SpecStreamCumulative == InitStream /\ [][NextStreamCumulative]_vars

\* The same as SpecStream, for a consumer that may call next() again before an
\* earlier next() has settled: up to NSlots activations exist at once.
NextStreamOverlap ==
    \/ \E c \in CallIds : (\A d \in CallIds : calls[d].pc = "idle") /\ CreateCall(c)
    \/ \E c \in CallIds, opts \in Options : GuardResume(c, opts)
    \/ \E c \in CallIds, result \in VendorResults : PixelResolves(c, result)
    \/ \E c \in CallIds, m \in RejectReasons : PixelRejects(c, m)
    \/ \E c \in Slots : NextCall(c)
    \/ StreamSteps
    \/ StreamEnv
SpecStreamOverlap == InitStream /\ [][NextStreamOverlap]_vars

\* The same as SpecStream, with a consumer that keeps advancing, timers that
\* fire, and a query that settles.
SpecStreamLive ==
    /\ SpecStream
    /\ WF_vars(\E c \in Slots : AllIdle /\ NextCall(c))
    /\ WF_vars(StreamSteps)
    /\ WF_vars((\E errs \in ErrorLists : QueryResolve(errs))
                  \/ (\E m \in RejectReasons : QueryReject(m)))

\* One adapter from the end of its constructor.
InitAdapter == IteratorInit /\ InitAdapterVars /\ InitFn
SpecAdapter == InitAdapter /\ [][NextAdapter]_vars

\* The formatter applied once to each input.
InitFormat == IteratorInit /\ InitAdapterVars /\ fnIn \in FormatInputs /\ fnOut = NotRun
NextFormat == RunFormat
SpecFormat == InitFormat /\ [][NextFormat]_vars

\* The model resolver and the response normalizer applied once to each input.
InitPure ==
    /\ IteratorInit /\ InitAdapterVars
    /\ fnIn \in ModelInputs \cup ResponseInputs
    /\ fnOut = NotRun
NextPure == RunModelId \/ RunResponse
SpecPure == InitPure /\ [][NextPure]_vars

\* ------------------------------------------------------ claims on the stream

\* C1: for a consumer that awaits each next(): once an advance has observed the
\* query resolved (isComplete), exactly one terminal chunk (finish_reason
\* "stop", empty delta) has been yielded over the life of the iterator, and
\* whatever settled last is that chunk or an end-of-sequence: no advance after
\* the terminal chunk yields a chunk or throws.
C1_OneTerminalThenDone ==
    /\ stops <= 1
    /\ isComplete <=> stops = 1
    /\ stops = 1 => last \in {StopChunk, DoneResult}
    /\ last.finish = "stop" => last.content = <<>>

\* C1 witness: the terminal chunk was yielded and a later advance gave done.
C1_Witness == stops = 1 /\ last = DoneResult /\ deltas # <<>>

\* A next() activation of slot c settles in this step.
Settles(c) == pc'[c] = "idle" /\ (pc[c] # "idle" \/ advances' # advances)

\* C2: in a stream that is still collecting and whose query has not failed,
\* when the non-empty text R = deltas has all been emitted and the timer has
\* overwritten the buffer with R+S (S non-empty), the advance that settles next
\* yields the delta chunk S with finish_reason null and moves the cursor to
\* length(R+S).
C2_NextAdvanceYieldsS ==
    [][\A c \in Slots :
         (/\ Settles(c)
          /\ isCollecting /\ error = "" /\ runPixelPromise # "rejected"
          /\ lastResponseLength > 0
          /\ Len(fullResponse) > lastResponseLength
          /\ deltas = SubSeq(fullResponse, 1, lastResponseLength))
         => /\ last' = DeltaChunk(SubSeq(fullResponse, lastResponseLength + 1,
                                         Len(fullResponse)))
            /\ lastResponseLength' = Len(fullResponse)]_vars

C5_VendorErrorsFailStream ==
    (runPixelPromise = "resolved" /\ outcome.errors # <<>>) =>
        (stops = 0 /\ last.kind # "done")

C17_StreamUsesAdapterSession ==
    settled.kind = "stream" =>
        /\ \A i \in 1..Len(pixelCalls[settled.call]) :
               pixelCalls[settled.call][i] = insightId
        /\ \A id \in partialArgs : id = insightId

\* s is an initial part of t.
IsPrefix(s, t) == Len(s) <= Len(t) /\ s = SubSeq(t, 1, Len(s))

\* C18: with cumulative partial reads, at every point of a stream: the cursor
\* does not exceed the buffered length, the concatenation of the delta
\* contents yielded so far is the prefix of the buffer that ends at the
\* cursor, no character occurs in it twice; and in every step the cursor does
\* not decrease and what was yielded stays an initial part of what is yielded.
C18_DeltasArePrefix ==
    /\ [](/\ lastResponseLength <= Len(fullResponse)
          /\ deltas = SubSeq(fullResponse, 1, lastResponseLength)
          /\ \A i, j \in 1..Len(deltas) : deltas[i] = deltas[j] => i = j)
    /\ [][/\ lastResponseLength' >= lastResponseLength
          /\ IsPrefix(deltas, deltas')]_vars

\* C18 witness: two delta chunks were yielded, "a" and then "b".
C18_Witness ==
    /\ deltas = <<"a", "b">>
    /\ last = DeltaChunk(<<"b">>)
    /\ lastResponseLength = 2

\* C19: once the query is issued the timer is scheduled exactly while the
\* iterator is collecting, and it is off once the stream completed or failed;
\* partial() is called only while the timer is scheduled and the iterator is
\* collecting; and the only steps that stop the timer are the one that
\* completes the stream and the one that saves its error.
C19_TimerWhileCollecting ==
    /\ [](/\ runPixelPromise # "null" => (timerOn <=> isCollecting)
          /\ (isComplete \/ error # "") => (~timerOn /\ ~isCollecting)
          /\ timerOn => intervalId # "null")
    /\ [][/\ ReadsInFlight' > ReadsInFlight => (timerOn /\ isCollecting)
          /\ (timerOn /\ ~timerOn') =>
                \/ ~isComplete /\ isComplete'
                \/ error = "" /\ error' # ""
          /\ (isCollecting /\ ~isCollecting') =>
                \/ ~isComplete /\ isComplete'
                \/ error = "" /\ error' # ""]_vars

\* C19 witness: the timer called partial(), the stream completed and the timer
\* is off while an answer of partial() is still awaited.
C19_Witness ==
    /\ isComplete /\ ~timerOn /\ intervalId = "timer"
    /\ partialArgs # {} /\ ReadsInFlight > 0

\* C20: with a query that settles, timers that fire and a consumer that keeps
\* advancing one next() at a time, a returned stream leads to the terminal
\* chunk followed by an end-of-sequence, or to a streaming error.
C20_PollingEnds ==
    (settled.kind = "stream") ~>
        (\/ stops = 1 /\ last = DoneResult
         \/ fails > 0 /\ last.kind = "error")

\* C20 witness: a next() lost the race and waits to retry, and the query has
\* resolved meanwhile.
C20_Witness ==
    /\ runPixelPromise = "resolved" /\ stops = 0
    /\ \E c \in Slots : pc[c] = "wait100"
    /\ srvLen = Len(fullResponse)

\* C22: in the step that yields the terminal chunk the cursor equals the
\* length of the buffer: all text the timer wrote was yielded in a delta chunk.
C22_NothingLostAtStop ==
    [][stops' = stops + 1 =>
          /\ lastResponseLength = Len(fullResponse)
          /\ deltas' = fullResponse']_vars

\* C23: with overlapping next() calls the iterator yields one terminal chunk
\* at most.
C23_OneStopWithOverlap ==
    stops <= 1

\* ----------------------------------------------------- claims on the adapter

\* C4: whenever the vendor result of a non-streaming call carries a non-empty
\* errors list, the call is rejected with "SEMOSS API Error: " followed by the
\* entries joined with ", ", and no completion is returned, whatever
\* pixelReturn holds.
C4_VendorErrorsReject ==
    settled.vendor.errors # <<>> =>
        /\ settled.kind = "api_error"
        /\ settled.value = NoCompletion
        /\ settled.message = ApiPrefix \o Join(settled.vendor.errors)
        /\ settled.vendor.errors = <<"e1">> => settled.message = "SEMOSS API Error: e1"
        /\ settled.vendor.errors = <<"e1", "e2">> =>
               settled.message = "SEMOSS API Error: e1, e2"

\* C4 witness: a result with two errors and an output was rejected.
C4_Witness ==
    /\ settled.vendor = [errors |-> <<"e1", "e2">>,
                         pixelReturn |-> <<[output |-> OutObject("hi", 3)]>>]
    /\ settled.kind = "api_error"

\* C14: whenever runPixel of a non-streaming call threw or rejected with a
\* message, that call was rejected with "SEMOSS API Error: " followed by that
\* message, returned no completion and had invoked runPixel once.
C14_RejectionWrapped ==
    settled.thrown # "" =>
        /\ settled.kind = "api_error"
        /\ settled.message = "SEMOSS API Error: " \o settled.thrown
        /\ settled.value = NoCompletion
        /\ ~settled.options.stream
        /\ calls[settled.call].pc = "done"
        /\ Len(pixelCalls[settled.call]) = 1

\* C14 witness: runPixel rejected with "boom" and the call was rejected with
\* "SEMOSS API Error: boom".
C14_Witness ==
    /\ settled.thrown = "boom"
    /\ settled.message = "SEMOSS API Error: boom"
    /\ settled.options.messages = Arr(<<Message(RoleUser, ContentHi)>>)

\* C15: the stream object a call returned is single-pass: however often it is
\* iterated, it issues one vendor query at most.
C15_StreamSinglePass ==
    \A c \in streams : Len(pixelCalls[c]) <= 1

\* C24: no bootstrap is started while another one is in flight: at most one
\* session has its initialize() pending, and it is the session held.
C24_OneBootstrapInFlight ==
    /\ Cardinality({k \in 1..Len(sessions) : sessions[k].status = "pending"}) <= 1
    /\ \A k \in 1..Len(sessions) : sessions[k].status = "pending" => insight = k

\* Call c is inside the guard: awaiting the bootstrap it started, or about to
\* run the flag checks.
InGuard(c) == calls[c].pc \in {"boot", "guard"}

\* C6: runPixel is invoked, by a call or by the first advance of a stream, only
\* while initialized and authorized are both true; a call whose bootstrap
\* returns has both flags true, and a call leaves the guard rejected with an
\* initialization error and without a query or a stream unless it ran the flag
\* checks with both flags true.
C6_NoQueryUnlessReady ==
    [][\A c \in CallIds :
         /\ pixelCalls'[c] # pixelCalls[c] => initialized /\ authorized
         /\ (calls[c].pc = "boot" /\ calls'[c].pc = "guard") =>
                initialized' /\ authorized'
         /\ (InGuard(c) /\ ~InGuard(c)') =>
                IF calls[c].pc = "guard" /\ initialized /\ authorized
                THEN calls'[c].pc = "done" =>
                        settled'.call = c /\ settled'.kind # "init_error"
                ELSE /\ calls'[c].pc = "done"
                     /\ settled'.call = c /\ settled'.kind = "init_error"
                     /\ pixelCalls'[c] = <<>> /\ c \notin streams']_vars

\* C6 witness: one call was rejected by the guard and another call has issued
\* its query.
C6_Witness ==
    /\ settled.kind = "init_error" /\ pixelCalls[settled.call] = <<>>
    /\ \E c \in CallIds : pixelCalls[c] # <<>>

\* C7: a create() call that finds a flag false re-runs the bootstrap: a new
\* session object is created and becomes the session held.
C7_GuardReboots ==
    [][\A c \in CallIds :
         (calls[c].pc = "idle" /\ calls'[c].pc # "idle"
          /\ (~initialized \/ ~authorized))
         => Len(sessions') = Len(sessions) + 1 /\ insight' = Len(sessions')]_vars

NoPublicCallYet == \A c \in CallIds : calls[c].pc = "idle"

\* C8 as stated: before the first public call no session object exists.
C8_LazyBootstrap == NoPublicCallYet => (insight = 0 /\ Len(sessions) = 0)

\* C8 amended: the bootstrap is started by the constructor: a session created
\* by the constructor's _initialize always exists, and before the first public
\* call it is the only one and the one held.
C8_EagerBootstrap ==
    /\ Len(sessions) >= 1
    /\ sessions[1].owner = 0
    /\ NoPublicCallYet => (insight = 1 /\ Len(sessions) = 1)

\* C8 witness: the constructor's bootstrap has finished with both flags true
\* and no public call was made.
C8_Witness == NoPublicCallYet /\ initialized /\ authorized /\ insightId = 1

\* A message list create() must refuse: absent, no list, empty, or without a
\* message of role 'user'.
Refused(messages) ==
    \/ messages.kind # "array"
    \/ Len(messages.items) = 0
    \/ \A i \in 1..Len(messages.items) : messages.items[i].role # RoleUser

\* C9 as stated: a call with a refused list fails with a validation error.
C9_RefusedIsValidationError ==
    (settled.call # 0 /\ Refused(settled.options.messages)) =>
        settled.kind = "validation_error"

\* C9 amended: a call with a refused list is rejected, with stream false and
\* true alike, without a query and without a stream object; the rejection is a
\* validation error whenever the guard's flag checks passed, and the guard's
\* initialization error otherwise.
C9_RefusedNeverQueries ==
    /\ [](
         (settled.call # 0 /\ Refused(settled.options.messages)) =>
            /\ settled.kind \in {"validation_error", "init_error"}
            /\ settled.kind = "validation_error" =>
                   settled.message \in {"Messages array is required",
                                        "At least one user message is required"}
            /\ pixelCalls[settled.call] = <<>>
            /\ settled.call \notin streams)
    /\ [][\A c \in CallIds :
            (calls[c].pc = "guard" /\ calls'[c].pc = "done"
             /\ initialized /\ authorized /\ Refused(settled'.options.messages))
            => settled'.kind = "validation_error"]_vars

\* C9 witness: a streaming call with a list without a user message was
\* rejected with a validation error.
C9_Witness ==
    /\ settled.options = [messages |-> Arr(<<Message(RoleAssistant, ContentHi)>>),
                          stream |-> TRUE]
    /\ settled.kind = "validation_error"

\* --------------------------------------------------- claims on the formatter

RECURSIVE Flatten(_)
Flatten(ss) == IF ss = <<>> THEN <<>> ELSE Head(ss) \o Flatten(Tail(ss))

\* "<CapitalizedRole>: <content>" and a blank line, for every message of ms.
Entries(ms) ==
    Flatten([i \in 1..Len(ms) |->
                _getRoleName(ms[i].role) \o <<":", " ">> \o ms[i].content
                    \o <<"\n", "\n">>])

\* C10: for a non-empty list with a message of role 'user' the formatter does
\* not throw and returns: nothing or the system block of a system message, then
\* the history opening, then one entry per non-system message in input order,
\* then the history closing, then "Assistant: " as the last characters.
C10_FormatStructure ==
    (fnOut # NotRun /\ ~Refused(fnIn)) =>
        LET items == fnIn.items
            nonSystem == SelectSeq(items, LAMBDA m : m.role # RoleSystem)
            rest == HistoryOpen \o Entries(nonSystem) \o HistoryClose \o AssistantCue
        IN /\ ~fnOut.threw
           /\ \/ fnOut.value = rest
              \/ \E i \in 1..Len(items) :
                    /\ items[i].role = RoleSystem
                    /\ fnOut.value = SystemPromptOpen \o items[i].content
                                        \o SystemPromptClose \o rest
           /\ SubSeq(fnOut.value, Len(fnOut.value) - Len(AssistantCue) + 1,
                     Len(fnOut.value)) = AssistantCue

\* C10 witness: a list with a system, a user, an assistant message was formatted.
C10_Witness ==
    /\ fnIn = Arr(<<Message(RoleSystem, ContentYo), Message(RoleUser, ContentHi),
                    Message(RoleAssistant, ContentYo)>>)
    /\ fnOut # NotRun /\ ~fnOut.threw

\* t occurs in s as a run of consecutive characters.
Contains(s, t) ==
    \E i \in 0..(Len(s) - Len(t)) : SubSeq(s, i + 1, i + Len(t)) = t

\* The number of places of s where t occurs.
Occurrences(s, t) ==
    Cardinality({i \in 0..(Len(s) - Len(t)) : SubSeq(s, i + 1, i + Len(t)) = t})

\* "<system_prompt>"
SystemTag == SubSeq(SystemPromptOpen, 1, 15)

\* C11: in the prompt formatted from a list, where a system message is a
\* message whose role is 'system': the prompt contains "<system_prompt>" if and
\* only if the list has a system message; then it starts with the block of the
\* first system message in list order, directly followed by the history
\* opening, and "<conversation_history>" occurs nowhere before; the content of
\* a later system message that no honored message carries occurs nowhere in
\* the prompt; and the history holds no "System: " entry and exactly one entry
\* per non-system message.
C11_FirstSystemHonored ==
    (fnOut # NotRun /\ ~fnOut.threw) =>
        LET items == fnIn.items
            out == fnOut.value
            sys == SelectSeq(items, LAMBDA m : m.role = RoleSystem)
            nonSystem == SelectSeq(items, LAMBDA m : m.role # RoleSystem)
            block == SystemPromptOpen \o sys[1].content \o SystemPromptClose
            history == SubSeq(out, IF sys = <<>> THEN 1 ELSE Len(block) + 1, Len(out))
        IN /\ Contains(out, SystemTag) <=> Len(sys) > 0
           /\ Occurrences(out, SystemTag) <= 1
           /\ Len(sys) > 0 =>
                 /\ SubSeq(out, 1, Len(block)) = block
                 /\ ~Contains(block, HistoryOpen)
           /\ SubSeq(history, 1, Len(HistoryOpen)) = HistoryOpen
           /\ \A i \in 2..Len(sys) :
                 (/\ sys[i].content # sys[1].content
                  /\ \A j \in 1..Len(nonSystem) : nonSystem[j].content # sys[i].content)
                 => ~Contains(out, sys[i].content)
           /\ ~Contains(history, NameSystem \o EntrySeparator)
           /\ Occurrences(history, EntryEnd) = Len(nonSystem)

\* C11 witness: a list with two system messages of different contents, the
\* second one after the user message, was formatted.
C11_Witness ==
    /\ fnIn = Arr(<<Message(RoleSystem, ContentYo), Message(RoleUser, ContentYo),
                    Message(RoleSystem, ContentHi)>>)
    /\ fnOut # NotRun /\ ~fnOut.threw

\* The history of a prompt: what stands between the history opening and the
\* history closing.
HistoryOf(out) ==
    LET open == CHOOSE i \in 0..Len(out) :
                    SubSeq(out, i + 1, i + Len(HistoryOpen)) = HistoryOpen
        close == Len(out) - Len(AssistantCue) - Len(HistoryClose)
    IN SubSeq(out, open + Len(HistoryOpen) + 1, close)

\* The entries of the messages of ms whose role is not 'system', each role
\* rendered by Render.
EntriesBy(Render(_), ms) ==
    Flatten([i \in 1..Len(ms) |->
                IF ms[i].role = <<"s", "y", "s", "t", "e", "m">>
                THEN <<>>
                ELSE Render(ms[i].role) \o <<":", " ">> \o ms[i].content
                         \o <<"\n", "\n">>])

\* 'user' gives 'User', 'assistant' gives 'Assistant', any other role its own
\* characters with the first one uppercased.
RenderedAsStated(role) ==
    CASE role = <<"u", "s", "e", "r">> -> <<"U", "s", "e", "r">>
      [] role = <<"a", "s", "s", "i", "s", "t", "a", "n", "t">> ->
             <<"A", "s", "s", "i", "s", "t", "a", "n", "t">>
      [] role = <<"t", "o", "o", "l">> -> <<"T", "o", "o", "l">>
      [] role = <<"U", "S", "E", "R">> -> <<"U", "S", "E", "R">>
      [] OTHER -> role

\* The same, but a role that is 'user', 'assistant' or 'system' up to case
\* gives 'User', 'Assistant' or 'System'.
RenderedUpToCase(role) ==
    CASE role = <<"u", "s", "e", "r">> -> <<"U", "s", "e", "r">>
      [] role = <<"a", "s", "s", "i", "s", "t", "a", "n", "t">> ->
             <<"A", "s", "s", "i", "s", "t", "a", "n", "t">>
      [] role = <<"t", "o", "o", "l">> -> <<"T", "o", "o", "l">>
      [] role = <<"U", "S", "E", "R">> -> <<"U", "s", "e", "r">>
      [] OTHER -> role

\* C21 as stated: in the history of a formatted prompt every non-system message
\* has its role rendered 'User' for 'user', 'Assistant' for 'assistant', and
\* for any other role as the same string with only the first letter uppercased.
C21_RestUnchanged ==
    (fnOut # NotRun /\ ~fnOut.threw) =>
        HistoryOf(fnOut.value) = EntriesBy(RenderedAsStated, fnIn.items)

\* C21 amended: a role that equals 'user', 'assistant' or 'system' when
\* lowercased is rendered 'User', 'Assistant' or 'System'; every other role is
\* rendered as the same string with only the first letter uppercased.
C21_RoleRendering ==
    (fnOut # NotRun /\ ~fnOut.threw) =>
        HistoryOf(fnOut.value) = EntriesBy(RenderedUpToCase, fnIn.items)

\* C21 witness: a list with the roles 'USER', 'tool' and 'user' was formatted
\* and its history starts with "User: ".
C21_Witness ==
    /\ fnIn = Arr(<<Message(RoleUpperUser, ContentHi), Message(RoleTool, ContentYo),
                    Message(RoleUser, ContentHi)>>)
    /\ fnOut # NotRun /\ ~fnOut.threw
    /\ SubSeq(HistoryOf(fnOut.value), 1, 6) = <<"U", "s", "e", "r", ":", " ">>

\* ------------------------------------------ claims on resolver and normalizer

\* C12: the resolver returns, for a name of the table, its table entry, and
\* for every other name the default engine id
\* 305f694d-c91c-400f-bd6c-b7e1dfbb5a4b; the result is one of the table's ids.
C12_ResolutionTotal ==
    (fnIn.kind = "model" /\ Ran) =>
        /\ ~fnOut.threw
        /\ fnOut.value \in {ModelLlama, ModelQwen}
        /\ fnOut.value =
              CASE fnIn.name = "Llama-3.1-8B-Instruct" ->
                       "305f694d-c91c-400f-bd6c-b7e1dfbb5a4b"
                [] fnIn.name = "Qwen2.5-7B-Instruct" ->
                       "a1b1b9ad-17c7-473a-9dfb-b2b8c29cdef0"
                [] OTHER -> "305f694d-c91c-400f-bd6c-b7e1dfbb5a4b"

\* The choice and the counters every normalized result has.
OneStopChoice(value) ==
    /\ value.choices = 1
    /\ value.role = "assistant"
    /\ value.finish_reason = "stop"
    /\ value.prompt_tokens = 0
    /\ value.total_tokens = value.prompt_tokens + value.completion_tokens

FirstOutput == fnIn.pixelReturn[1].output

\* C13 as stated: whenever the first output is a string, the content is that
\* string and completion_tokens is 0.
C13_StringIsContent ==
    (fnIn.kind = "result" /\ Ran /\ Len(fnIn.pixelReturn) > 0
     /\ FirstOutput.type = "string") =>
        /\ fnOut.value.content = FirstOutput.response
        /\ fnOut.value.completion_tokens = 0

\* C13 amended: for an error-free result, an object output with a non-empty
\* response gives that text and its token count (0 if it has none); a
\* non-empty string output gives that string and 0; every other result, the
\* empty string output included, gives "No response received" and 0; always
\* there is one choice of role 'assistant' and finish_reason 'stop',
\* prompt_tokens is 0 and total_tokens is prompt_tokens + completion_tokens.
C13_Normalization ==
    (fnIn.kind = "result" /\ Ran) =>
        LET value == fnOut.value
            has == Len(fnIn.pixelReturn) > 0
        IN /\ ~fnOut.threw
           /\ OneStopChoice(value)
           /\ IF has /\ FirstOutput.type = "object" /\ FirstOutput.response # ""
              THEN /\ value.content = FirstOutput.response
                   /\ value.completion_tokens = FirstOutput.tokens
              ELSE IF has /\ FirstOutput.type = "string" /\ FirstOutput.response # ""
              THEN /\ value.content = FirstOutput.response
                   /\ value.completion_tokens = 0
              ELSE /\ value.content = "No response received"
                   /\ value.completion_tokens = 0

\* C13 witness: an object output "hi" with 3 tokens, followed by another
\* element, was normalized to content "hi" and 3 completion tokens.
C13_Witness ==
    /\ fnIn.kind = "result" /\ Ran
    /\ Len(fnIn.pixelReturn) = 2
    /\ FirstOutput = OutObject("hi", 3)
    /\ fnOut.value.content = "hi" /\ fnOut.value.completion_tokens = 3

====
